---- MODULE Spec2Model ----
(***************************************************************************)
(* A model of tls-friend: the one-time crypto provider installation        *)
(* (lib.rs), the PEM parsers and configuration builders (tls_setup.rs),    *)
(* split / try_join (async_io.rs), the connector and acceptor              *)
(* (client_connector.rs) and the unified streams over a duplex pipe        *)
(* (tls_streams.rs, test.rs).                                              *)
(*                                                                         *)
(* Each component has its own specification (SpecCrypto, SpecBuild, ...)   *)
(* over the shared variables; the variables of the other components stay   *)
(* at their initial values.                                                *)
(***************************************************************************)
EXTENDS Integers, Sequences, FiniteSets, TLC

\* ---------------------------------------------------------------- bounds
\* Number of threads that call install_crypto.
NCallers == 3
\* Calls to install_crypto each thread makes, one after the other.
MaxCalls == 2
\* PEM blocks in the three inputs of a builder, taken together.
MaxBlocks == 4
\* Calls of into_split in a run (each allocates one Arc).
MaxSplits == 2
\* Bytes the peer has sent to one stream, and bytes written to one stream.
MaxBytes == 2
\* Characters in a server name given to ClientConnector::tls.
MaxNameLen == 3
\* Room in one direction of the duplex pipe, in records (test.rs:24 gives it
\* 1024 bytes).
PipeCap == 2
\* Operations made on one unified stream.
MaxOps == 2

Callers == 1..NCallers
\* Two duplex streams of one type: what a mismatched try_join needs.
Streams == {1, 2}
\* The raw streams handed to connect and accept.
RawIOs == {1, 2}

VARIABLES
    \* lib.rs
    CRYPTO_SETUP,   \* the AtomicBool
    pc,             \* pc[c]: where caller c is inside install_crypto
    calls,          \* calls[c]: calls caller c has started
    installs,       \* install_default() invocations so far
    provider,       \* the process-wide default provider: "none" or "aws_lc_rs"
    ret,            \* ret[c]: how each finished call of c went
    \* tls_setup.rs
    trust_bytes,   \* the trust-anchor input
    key_bytes,       \* the key input
    cert_bytes,      \* the certificate input
    called,         \* the function that was called on them, "none" before
    result,         \* what it returned
    \* async_io.rs
    owner,          \* owner[s]: the stream value the application holds, whole
    arcs,           \* arcs[a]: the stream inside the Arc<Inner> of split a
    nextArc,        \* the next Arc tokio::io::split allocates
    readHalf,       \* readHalf[s]: the ReadHalf taken from stream s
    writeHalf,      \* writeHalf[s]: the WriteHalf taken from stream s
    chan,           \* chan[fd]: the transport under stream fd: rx (bytes the
                    \* peer has sent, not yet read) and tx (bytes written)
    got,            \* got[s]: bytes the application has read from stream s
    twin,           \* twin[s]: stream s as it would be had it never been split
    halfUsed,       \* halfUsed[s]: a half of s has been read or written
    joinArgs,       \* the streams whose halves the last try_join was given
    joinResult,     \* what the last try_join returned
    \* client_connector.rs
    connector,      \* the ClientConnector that was built, NoConnector before
    acceptor,       \* the ClientAcceptor that was built, NoConnector before
    tlsCall,        \* the last ClientConnector::tls call: its name and result
    out,            \* out[io]: the connect / accept call made on raw stream io
    hsCount,        \* hsCount[io]: TLS handshakes started on raw stream io
    wire,           \* wire[io]: what has been written to raw stream io
    inbound,        \* inbound[io]: what the peer has sent on raw stream io
    appSent,        \* appSent[io]: bytes the application wrote to its stream
    appGot,         \* appGot[io]: bytes the application read from its stream
    \* test.rs: one duplex pipe between a connector and an acceptor
    setup,          \* setup[side]: the ClientConnector / ClientAcceptor of side
    pipe,           \* pipe[side]: what side has written and its peer has not
                    \* yet read, and whether that direction is closed
    phase,          \* phase[side]: where side is: "new", "handshaking",
                    \* "open", "shut" (write side shut down), "failed"
    ustream,        \* ustream[side]: the ClientStream / ServerStream of side
    tx,             \* tx[side]: bytes side has written to its stream
    rx,             \* rx[side]: bytes side has read from its stream
    eof,            \* eof[side]: a read of side returned end-of-stream
    rdErr,          \* rdErr[side]: the error a read of side returned, or "none"
    \* tls_streams.rs: one unified stream and the operations made on it
    sval,           \* the stream value: its enum, active variant and inner value
    made,           \* the value as it was created
    opLog           \* per operation: what was asked, the inner calls made,
                    \* what the inner call returned, what the caller got

cryptoVars == <<CRYPTO_SETUP, pc, calls, installs, provider, ret>>
buildVars == <<trust_bytes, key_bytes, cert_bytes, called, result>>
splitVars == <<owner, arcs, nextArc, readHalf, writeHalf, chan, got, twin,
               halfUsed, joinArgs, joinResult>>

connVars == <<connector, acceptor, tlsCall, out, hsCount, wire, inbound,
              appSent, appGot>>

pipeVars == <<setup, pipe, phase, ustream, tx, rx, eof, rdErr>>

streamVars == <<sval, made, opLog>>

vars == <<cryptoVars, buildVars, splitVars, connVars, pipeVars, streamVars>>

\* What the actions of one component leave alone.
notCrypto == <<buildVars, splitVars, connVars, pipeVars, streamVars>>
notBuild == <<cryptoVars, splitVars, connVars, pipeVars, streamVars>>
notSplit == <<cryptoVars, buildVars, connVars, pipeVars, streamVars>>
notConn == <<cryptoVars, buildVars, splitVars, pipeVars, streamVars>>
notPipe == <<cryptoVars, buildVars, splitVars, connVars, streamVars>>
notStream == <<cryptoVars, buildVars, splitVars, connVars, pipeVars>>

\* ------------------------------------------- each component before it is used
IdleCrypto ==
    /\ CRYPTO_SETUP = FALSE
    /\ pc = [c \in Callers |-> "idle"]
    /\ calls = [c \in Callers |-> 0]
    /\ installs = 0
    /\ provider = "none"
    /\ ret = [c \in Callers |-> <<>>]

NoResult == [tag |-> "None"]

\* A duplex stream value: the transport it is bound to and the bytes that
\* have gone through it.  NoStream: the value has been moved away.
Stream(fd) == [fd |-> fd, nread |-> 0, nwritten |-> 0]
NoStream == [fd |-> 0, nread |-> 0, nwritten |-> 0]
\* ReadHalf / WriteHalf { inner: Arc<Inner<T>> }.  NoHalf: no such half.
Half(arc) == [inner |-> arc]
NoHalf == [inner |-> 0]

IdleSplit ==
    /\ owner = [s \in Streams |-> Stream(s)]
    /\ arcs = [a \in 1..MaxSplits |-> NoStream]
    /\ nextArc = 1
    /\ readHalf = [s \in Streams |-> NoHalf]
    /\ writeHalf = [s \in Streams |-> NoHalf]
    /\ chan = [s \in Streams |->
                 [rx |-> [k \in 1..MaxBytes |-> 10 * s + k], tx |-> <<>>]]
    /\ got = [s \in Streams |-> <<>>]
    /\ twin = [s \in Streams |-> Stream(s)]
    /\ halfUsed = [s \in Streams |-> FALSE]
    /\ joinArgs = <<>>
    /\ joinResult = NoResult

\* Option<T>
None == [some |-> FALSE]
Some(v) == [some |-> TRUE, v |-> v]
NoConnector == [built |-> FALSE]
NoCall == [call |-> "none"]

IdleConn ==
    /\ connector = NoConnector
    /\ acceptor = NoConnector
    /\ tlsCall = NoCall
    /\ out = [io \in RawIOs |-> NoCall]
    /\ hsCount = [io \in RawIOs |-> 0]
    /\ wire = [io \in RawIOs |-> <<>>]
    /\ inbound = [io \in RawIOs |-> <<>>]
    /\ appSent = [io \in RawIOs |-> <<>>]
    /\ appGot = [io \in RawIOs |-> <<>>]

Sides == {"client", "server"}
Peer(side) == IF side = "client" THEN "server" ELSE "client"

IdlePipe ==
    /\ setup = [side \in Sides |-> NoConnector]
    /\ pipe = [side \in Sides |-> [buffer |-> <<>>, is_closed |-> FALSE]]
    /\ phase = [side \in Sides |-> "new"]
    /\ ustream = [side \in Sides |-> NoCall]
    /\ tx = [side \in Sides |-> <<>>]
    /\ rx = [side \in Sides |-> <<>>]
    /\ eof = [side \in Sides |-> FALSE]
    /\ rdErr = [side \in Sides |-> "none"]

IdleStream ==
    /\ sval = NoCall
    /\ made = NoCall
    /\ opLog = <<>>

IdleBuild ==
    /\ trust_bytes = <<>>
    /\ key_bytes = <<>>
    /\ cert_bytes = <<>>
    /\ called = "none"
    /\ result = NoResult

\* ================================================================ lib.rs

\* AtomicBool::compare_exchange(current, new): one atomic step.
\* A compare_exchange that stores without comparing.
compare_exchange_blind(cell, current, new) ==
    [ok |-> TRUE, val |-> new]

compare_exchange(cell, current, new) ==
    IF cell = current THEN [ok |-> TRUE, val |-> new]
                      ELSE [ok |-> FALSE, val |-> cell]

\* A thread enters install_crypto.
CallInstallCrypto(c) ==
    /\ pc[c] = "idle"
    /\ calls[c] < MaxCalls
    /\ pc' = [pc EXCEPT ![c] = "cas"]
    /\ calls' = [calls EXCEPT ![c] = @ + 1]
    /\ UNCHANGED <<CRYPTO_SETUP, installs, provider, ret>>
    /\ UNCHANGED notCrypto

\* lib.rs:12-15: the compare-and-set; the loser logs and returns.
CompareAndSet(c) ==
    /\ pc[c] = "cas"
    /\ LET r == compare_exchange(CRYPTO_SETUP, FALSE, TRUE) IN
        /\ CRYPTO_SETUP' = r.val
        /\ IF r.ok
             THEN /\ pc' = [pc EXCEPT ![c] = "install"]
                  /\ ret' = ret
             ELSE /\ pc' = [pc EXCEPT ![c] = "idle"]
                  /\ ret' = [ret EXCEPT ![c] = Append(@, "noop")]
    /\ UNCHANGED <<calls, installs, provider>>
    /\ UNCHANGED notCrypto

\* lib.rs:17-20: the winner runs install_default(); a failure (a default
\* provider is already installed by someone else) is logged, not returned.
\* An installation that clears the flag again when it fails.
InstallDefault_reset(c) ==
    /\ pc[c] = "install"
    /\ installs' = installs + 1
    /\ \E ok \in BOOLEAN :
        /\ provider' = IF ok THEN "aws_lc_rs" ELSE provider
        /\ CRYPTO_SETUP' = ok
        /\ ret' = [ret EXCEPT ![c] = Append(@, IF ok THEN "installed" ELSE "install_failed")]
    /\ pc' = [pc EXCEPT ![c] = "idle"]
    /\ UNCHANGED calls
    /\ UNCHANGED notCrypto

InstallDefault(c) ==
    /\ pc[c] = "install"
    /\ installs' = installs + 1
    /\ \E ok \in BOOLEAN :
        /\ provider' = IF ok THEN "aws_lc_rs" ELSE provider
        /\ ret' = [ret EXCEPT ![c] = Append(@, IF ok THEN "installed" ELSE "install_failed")]
    /\ pc' = [pc EXCEPT ![c] = "idle"]
    /\ UNCHANGED <<CRYPTO_SETUP, calls>>
    /\ UNCHANGED notCrypto

InitCrypto ==
    IdleCrypto /\ IdleBuild /\ IdleSplit /\ IdleConn /\ IdlePipe /\ IdleStream

NextCrypto ==
    \E c \in Callers :
        \/ CallInstallCrypto(c)
        \/ CompareAndSet(c)
        \/ InstallDefault(c)

SpecCrypto == InitCrypto /\ [][NextCrypto]_vars

\* ---------------------------------------------------------------- C1
RECURSIVE SumOver(_, _)
SumOver(f, S) ==
    IF S = {} THEN 0
    ELSE LET x == CHOOSE y \in S : TRUE IN f[x] + SumOver(f, S \ {x})

\* Finished calls of c that took the installation branch / the no-op branch.
InstallReturns(c) == Cardinality({i \in 1..Len(ret[c]) : ret[c][i] # "noop"})
NoopReturns(c) == Cardinality({i \in 1..Len(ret[c]) : ret[c][i] = "noop"})
\* Calls that have won the compare-and-set, finished or not.
CasWins ==
    SumOver([c \in Callers |-> InstallReturns(c)], Callers)
        + Cardinality({c \in Callers : pc[c] = "install"})
\* Calls that have performed their compare-and-set.
CasDone == SumOver([c \in Callers |-> Len(ret[c])], Callers)
               + Cardinality({c \in Callers : pc[c] = "install"})

\* C1: however many calls to install_crypto are made, one after the other
\* or interleaved, exactly one of them (the winner of the compare-and-set)
\* attempts the installation; every other call installs nothing and returns
\* normally.
C1_ExactlyOneInstall ==
    /\ installs <= 1
    /\ CasWins = (IF CasDone > 0 THEN 1 ELSE 0)
    /\ installs = SumOver([c \in Callers |-> InstallReturns(c)], Callers)
    /\ SumOver([c \in Callers |-> NoopReturns(c)], Callers) = CasDone - CasWins
    /\ \A c \in Callers : pc[c] = "idle" => Len(ret[c]) = calls[c]

\* Every caller has finished every call: one installed, all others no-ops,
\* and one caller lost the race twice.
C1_Witness ==
    /\ \A c \in Callers : pc[c] = "idle" /\ calls[c] = MaxCalls
    /\ installs = 1
    /\ SumOver([c \in Callers |-> NoopReturns(c)], Callers) = NCallers * MaxCalls - 1
    /\ \E c \in Callers : \A i \in 1..MaxCalls : ret[c][i] = "noop"

\* ---------------------------------------------------------------- C13
\* The installation was attempted and failed.
InstallFailed ==
    \E c \in Callers : \E i \in 1..Len(ret[c]) : ret[c][i] = "install_failed"

\* C13: the flag is set before the installation runs (whoever is in or past
\* the installation has left it TRUE) and no step ever clears it; a caller at
\* its compare-and-set can always take that step, whatever the winner is
\* doing, and when it loses it returns at once; and once the installation
\* has failed, no step runs it again and no provider is installed.
C13_FlagFirstNoWaitNoRetry ==
    /\ []((installs > 0 \/ \E c \in Callers : pc[c] = "install") => CRYPTO_SETUP)
    /\ [][CRYPTO_SETUP => CRYPTO_SETUP']_vars
    /\ [](\A c \in Callers : pc[c] = "cas" => ENABLED CompareAndSet(c))
    /\ [][\A c \in Callers :
             (CompareAndSet(c) /\ CRYPTO_SETUP) =>
                 (pc'[c] = "idle" /\ ret'[c] = Append(ret[c], "noop"))]_vars
    /\ [](InstallFailed => (installs = 1 /\ provider = "none"
                              /\ \A c \in Callers : pc[c] # "install"))
    /\ [][InstallFailed => installs' = installs]_vars

\* A loser has returned while the winner has not yet run the installation.
C13_Witness ==
    /\ pc[1] = "install"
    /\ installs = 0
    /\ provider = "none"
    /\ CRYPTO_SETUP
    /\ ret[2] = <<"noop">>
    /\ pc[2] = "idle"

\* ========================================================== tls_setup.rs
\* A PEM input is the sequence of blocks rustls_pemfile::read_one yields from
\* it, in file order.  A block is the Item it decodes to (with the DER it
\* carries) or a framing error (bad base64, a section that never ends).
\* Text outside sections and sections with an unknown label yield nothing.
CertBlocks ==
    { [item |-> "X509Certificate", der |-> d] : d \in {"certA", "certB", "notDer"} }
KeyBlocks ==
    { [item |-> k, der |-> "key"] : k \in {"Pkcs1Key", "Pkcs8Key", "Sec1Key"} }
OtherBlocks == { [item |-> "Crl", der |-> "crl"] }
MalformedBlock == [item |-> "Malformed", der |-> ""]
PemBlocks == CertBlocks \cup KeyBlocks \cup OtherBlocks \cup {MalformedBlock}

RECURSIVE SeqsUpTo(_, _)
SeqsUpTo(S, n) ==
    IF n = 0 THEN {<<>>}
    ELSE LET shorter == SeqsUpTo(S, n - 1) IN
         shorter \cup { Append(q, x) : q \in {r \in shorter : Len(r) = n - 1}, x \in S }

\* Result<T, std::io::Error>, and the third outcome of a call: a panic.
Ok(v) == [tag |-> "Ok", value |-> v]
Err(kind, msg) == [tag |-> "Err", kind |-> kind, msg |-> msg]
Panic(msg) == [tag |-> "Panic", msg |-> msg]

\* rustls_pemfile::read_one on the block at the cursor.
read_one(block) ==
    IF block.item = "Malformed" THEN Err("InvalidData", "pem framing")
    ELSE Ok(block)

\* tls_setup.rs:325-338: the loop of parse_certificates from block i on.
\* read_one(..).expect(..) panics on a framing error.
RECURSIVE parse_certificates_loop(_, _, _)
parse_certificates_loop(ca_binary, i, certificates) ==
    IF i > Len(ca_binary) THEN Ok(certificates)
    ELSE LET pem == read_one(ca_binary[i]) IN
         IF pem.tag = "Err" THEN Panic("failed to parse certificate")
         ELSE IF pem.value.item = "X509Certificate"
              THEN parse_certificates_loop(ca_binary, i + 1,
                                           Append(certificates, pem.value.der))
              ELSE parse_certificates_loop(ca_binary, i + 1, certificates)

\* tls_setup.rs:317-350
parse_certificates(ca_binary) ==
    LET scanned == parse_certificates_loop(ca_binary, 1, <<>>) IN
    IF scanned.tag = "Panic" THEN scanned
    ELSE IF scanned.value = <<>>
         THEN Err("InvalidData", "no certifiates in file")
         ELSE scanned

\* PrivateKeyDer: the encoding tag and the block the bytes come from.
PrivateKeyDer(enc, pos) == [enc |-> enc, pos |-> pos]

\* tls_setup.rs:360-369: the loop of parse_key from block i on.
\* A parse_key that returns on the last key block instead of the first.
RECURSIVE parse_key_loop_last(_, _)
parse_key_loop_last(bytes, i) ==
    IF i < 1 THEN Err("InvalidData", "could not find valid private key")
    ELSE LET b == bytes[i] IN
         IF b.item = "Pkcs1Key" THEN Ok(PrivateKeyDer("Pkcs1", i))
         ELSE IF b.item = "Pkcs8Key" THEN Ok(PrivateKeyDer("Pkcs8", i))
         ELSE IF b.item = "Sec1Key" THEN Ok(PrivateKeyDer("Sec1", i))
         ELSE parse_key_loop_last(bytes, i - 1)

RECURSIVE parse_key_loop(_, _)
parse_key_loop(bytes, i) ==
    IF i > Len(bytes)
    THEN Err("InvalidData", "could not find valid private key")
    ELSE LET pem == read_one(bytes[i]) IN
         IF pem.tag = "Err" THEN pem
         ELSE IF pem.value.item = "Pkcs1Key" THEN Ok(PrivateKeyDer("Pkcs1", i))
         ELSE IF pem.value.item = "Pkcs8Key" THEN Ok(PrivateKeyDer("Pkcs8", i))
         ELSE IF pem.value.item = "Sec1Key" THEN Ok(PrivateKeyDer("Sec1", i))
         ELSE parse_key_loop(bytes, i + 1)

parse_key_last(bytes) == parse_key_loop_last(bytes, Len(bytes))

\* tls_setup.rs:352-379
parse_key(bytes) == parse_key_loop(bytes, 1)

\* RootCertStore::add: a certificate that is not DER X.509 is rejected.
\* tls_setup.rs:154-158 / 201-205: the rejected ones are logged and skipped.
RECURSIVE add_roots(_, _)
add_roots(certs, i) ==
    IF i > Len(certs) THEN <<>>
    ELSE IF certs[i] = "notDer" THEN add_roots(certs, i + 1)
         ELSE <<certs[i]>> \o add_roots(certs, i + 1)

\* tls_setup.rs:160-165 / 207-212
\* The emptiness check left out.
root_store_check_none(root_cert_store) == Ok(root_cert_store)

root_store_check(root_cert_store) ==
    IF root_cert_store = <<>>
    THEN Err("InvalidData", "no CA certificate found")
    ELSE Ok(root_cert_store)

\* tls_setup.rs:152-165 and 199-212: the trust store of build_mutual and
\* build_client.
load_trust(trust_ca_pem) ==
    LET parsed == parse_certificates(trust_ca_pem) IN
    IF parsed.tag # "Ok" THEN parsed
    ELSE root_store_check(add_roots(parsed.value, 1))

\* tls_setup.rs:147-181
\* A build_mutual that reads the certificate chain from cert_data only.
build_mutual_cert_only(trust_ca_pem, key_data, cert_data) ==
    LET trust == load_trust(trust_ca_pem) IN
    IF trust.tag # "Ok" THEN trust
    ELSE LET cert_chain == parse_certificates(cert_data) IN
         IF cert_chain.tag # "Ok" THEN cert_chain
         ELSE LET private_key == parse_key(key_data) IN
              IF private_key.tag # "Ok" THEN private_key
              ELSE Ok([type |-> "MutualTls", trust |-> trust.value,
                       cert_chain |-> cert_chain.value,
                       private_key |-> private_key.value])

build_mutual(trust_ca_pem, key_data, cert_data) ==
    LET trust == load_trust(trust_ca_pem) IN
    IF trust.tag # "Ok" THEN trust
    ELSE LET cert_chain == parse_certificates(IF cert_data = <<>> THEN key_data ELSE cert_data) IN
         IF cert_chain.tag # "Ok" THEN cert_chain
         ELSE LET private_key == parse_key(key_data) IN
              IF private_key.tag # "Ok" THEN private_key
              ELSE Ok([type |-> "MutualTls", trust |-> trust.value,
                       cert_chain |-> cert_chain.value,
                       private_key |-> private_key.value])

\* tls_setup.rs:183-196
build_server(key_data, cert_data) ==
    LET cert_chain == parse_certificates(cert_data) IN
    IF cert_chain.tag # "Ok" THEN cert_chain
    ELSE LET private_key == parse_key(key_data) IN
         IF private_key.tag # "Ok" THEN private_key
         ELSE Ok([type |-> "OpenServerTls",
                  cert_chain |-> cert_chain.value,
                  private_key |-> private_key.value])

\* tls_setup.rs:198-217
build_client(trust_ca_pem) ==
    LET trust == load_trust(trust_ca_pem) IN
    IF trust.tag # "Ok" THEN trust
    ELSE Ok([type |-> "ClientVerifyServerTls", trust |-> trust.value])

PemInputs(n) == SeqsUpTo(PemBlocks, n)

\* The caller's three byte buffers: any PEM inputs of MaxBlocks blocks in all.
InitBuild ==
    /\ trust_bytes \in PemInputs(MaxBlocks)
    /\ key_bytes \in PemInputs(MaxBlocks - Len(trust_bytes))
    /\ cert_bytes \in PemInputs(MaxBlocks - Len(trust_bytes) - Len(key_bytes))
    /\ called = "none"
    /\ result = NoResult
    /\ IdleCrypto
    /\ IdleSplit
    /\ IdleConn
    /\ IdlePipe
    /\ IdleStream

CallBuildMutual ==
    /\ called = "none"
    /\ called' = "build_mutual"
    /\ result' = build_mutual(trust_bytes, key_bytes, cert_bytes)
    /\ UNCHANGED <<trust_bytes, key_bytes, cert_bytes>>
    /\ UNCHANGED notBuild

CallBuildServer ==
    /\ called = "none"
    /\ called' = "build_server"
    /\ result' = build_server(key_bytes, cert_bytes)
    /\ UNCHANGED <<trust_bytes, key_bytes, cert_bytes>>
    /\ UNCHANGED notBuild

CallBuildClient ==
    /\ called = "none"
    /\ called' = "build_client"
    /\ result' = build_client(trust_bytes)
    /\ UNCHANGED <<trust_bytes, key_bytes, cert_bytes>>
    /\ UNCHANGED notBuild

CallParseKey ==
    /\ called = "none"
    /\ called' = "parse_key"
    /\ result' = parse_key(key_bytes)
    /\ UNCHANGED <<trust_bytes, key_bytes, cert_bytes>>
    /\ UNCHANGED notBuild

NextBuild ==
    \/ CallBuildMutual
    \/ CallBuildServer
    \/ CallBuildClient
    \/ CallParseKey

SpecBuild == InitBuild /\ [][NextBuild]_vars

\* ---------------------------------------------------------------- C2
WellFormed(pem) == \A i \in 1..Len(pem) : pem[i].item # "Malformed"
\* The certificate blocks of an input that a root store accepts.
TrustAnchors(pem) ==
    { i \in 1..Len(pem) : pem[i].item = "X509Certificate" /\ pem[i].der # "notDer" }

\* C2: build_mutual and build_client fail with InvalidData on every
\* well-framed trust input that puts no certificate in the trust store (no
\* certificate block, only other blocks, only rejected certificates), and
\* neither ever returns a configuration whose trust store is empty.
C2_EmptyTrustRejected ==
    called \in {"build_mutual", "build_client"} =>
        /\ result.tag = "Ok" => result.value.trust # <<>>
        /\ (WellFormed(trust_bytes) /\ TrustAnchors(trust_bytes) = {}) =>
               (result.tag = "Err" /\ result.kind = "InvalidData")

\* build_mutual with a usable key and certificate, and a trust input that
\* holds only a certificate the root store rejects.
C2_Witness ==
    /\ called = "build_mutual"
    /\ trust_bytes = <<[item |-> "X509Certificate", der |-> "notDer"]>>
    /\ key_bytes = <<[item |-> "Pkcs8Key", der |-> "key"]>>
    /\ cert_bytes = <<[item |-> "X509Certificate", der |-> "certA"]>>
    /\ result = Err("InvalidData", "no CA certificate found")

\* ---------------------------------------------------------------- C7
\* C7: whatever the input, build_mutual, build_server and build_client
\* return: a configuration or a typed failure (InvalidInput / InvalidData),
\* malformed PEM framing included, in the trust, certificate and key bytes
\* alike.
C7_BuildersAlwaysReturn ==
    called \in {"build_mutual", "build_server", "build_client"} =>
        \/ result.tag = "Ok"
        \/ result.tag = "Err" /\ result.kind \in {"InvalidInput", "InvalidData"}

\* ---------------------------------------------------------------- C8
IsKeyItem(b) == b.item \in {"Pkcs1Key", "Pkcs8Key", "Sec1Key"}
KeyPositions(pem) == { i \in 1..Len(pem) : IsKeyItem(pem[i]) }
Least(S) == CHOOSE i \in S : \A j \in S : i <= j
EncodingOf(b) ==
    CASE b.item = "Pkcs1Key" -> "Pkcs1"
      [] b.item = "Pkcs8Key" -> "Pkcs8"
      [] b.item = "Sec1Key" -> "Sec1"

\* C8: over well-framed blocks, parse_key returns the first block, in file
\* order, that is a PKCS#1, PKCS#8 or SEC1 key, tagged with its encoding,
\* however many blocks of other types come before it; with no such block it
\* fails with InvalidData "could not find valid private key".
C8_FirstKeyWins ==
    called = "parse_key" =>
        LET keys == KeyPositions(key_bytes) IN
        IF keys = {}
        THEN WellFormed(key_bytes) =>
                 result = Err("InvalidData", "could not find valid private key")
        ELSE WellFormed(SubSeq(key_bytes, 1, Least(keys))) =>
                 /\ result.tag = "Ok"
                 /\ result.value.pos = Least(keys)
                 /\ result.value.enc = EncodingOf(key_bytes[Least(keys)])

\* Two key blocks of different encodings after a non-key block: the first
\* one is returned.
C8_Witness ==
    /\ called = "parse_key"
    /\ Len(key_bytes) = 3
    /\ key_bytes[1].item = "Crl"
    /\ key_bytes[2].item = "Sec1Key"
    /\ key_bytes[3].item = "Pkcs8Key"
    /\ result = Ok(PrivateKeyDer("Sec1", 2))

\* ---------------------------------------------------------------- C11
\* The certificate blocks of an input, in file order.
RECURSIVE CertDers(_, _)
CertDers(pem, i) ==
    IF i > Len(pem) THEN <<>>
    ELSE IF pem[i].item = "X509Certificate"
         THEN <<pem[i].der>> \o CertDers(pem, i + 1)
         ELSE CertDers(pem, i + 1)

\* The buffer build_mutual reads the certificate chain from.
CertSource == IF cert_bytes = <<>> THEN key_bytes ELSE cert_bytes

\* A trust input that gives a non-empty trust store.
TrustLoads == WellFormed(trust_bytes) /\ TrustAnchors(trust_bytes) # {}

\* Every configuration build_mutual returns has the certificate blocks of
\* key_bytes as its chain when cert_bytes is empty and those of cert_bytes
\* otherwise, and the first key block of key_bytes as its private key.
C11_Sources ==
    (called = "build_mutual" /\ result.tag = "Ok") =>
        /\ result.value.cert_chain = CertDers(CertSource, 1)
        /\ KeyPositions(key_bytes) # {}
        /\ result.value.private_key =
              PrivateKeyDer(EncodingOf(key_bytes[Least(KeyPositions(key_bytes))]),
                            Least(KeyPositions(key_bytes)))

\* key_bytes holds at least one certificate block and a supported key.
HoldsCertAndKey ==
    /\ CertDers(key_bytes, 1) # <<>>
    /\ KeyPositions(key_bytes) # {}

\* C11 as stated: build_mutual takes the certificate chain from key_bytes
\* when cert_bytes is empty and from cert_bytes in every other case, and the
\* private key from key_bytes; with empty cert_bytes and a non-empty trust
\* store it succeeds exactly when key_bytes holds at least one certificate
\* block and a supported private key.
C11_CombinedFileAsStated ==
    /\ C11_Sources
    /\ (called = "build_mutual" /\ cert_bytes = <<>> /\ TrustLoads) =>
           (result.tag = "Ok" <=> HoldsCertAndKey)

\* C11: build_mutual takes the certificate chain from key_bytes when
\* cert_bytes is empty and from cert_bytes in every other case, and the
\* private key from key_bytes; with empty cert_bytes and a non-empty trust
\* store it succeeds exactly when key_bytes is well-framed throughout and
\* holds at least one certificate block and a supported private key.
C11_CombinedFile ==
    /\ C11_Sources
    /\ (called = "build_mutual" /\ cert_bytes = <<>> /\ TrustLoads) =>
           (result.tag = "Ok" <=> (WellFormed(key_bytes) /\ HoldsCertAndKey))

\* build_mutual on a combined file: a key and a certificate in key_bytes,
\* cert_bytes empty, and the chain of the result is that certificate.
C11_Witness ==
    /\ called = "build_mutual"
    /\ trust_bytes = <<[item |-> "X509Certificate", der |-> "certA"]>>
    /\ key_bytes = <<[item |-> "Pkcs8Key", der |-> "key"],
                     [item |-> "X509Certificate", der |-> "certB"]>>
    /\ cert_bytes = <<>>
    /\ result.tag = "Ok"
    /\ result.value.cert_chain = <<"certB">>
    /\ result.value.private_key = PrivateKeyDer("Pkcs8", 1)

\* ============================================================ async_io.rs
\* The k-th byte the peer of transport fd sends.
PeerByte(fd, k) == 10 * fd + k

\* poll_read / poll_write of a stream value on its transport.
io_read(io) == [io EXCEPT !.nread = @ + 1]
io_write(io) == [io EXCEPT !.nwritten = @ + 1]

\* async_io.rs:19-21: tokio::io::split moves the stream into a new Arc and
\* hands out the two halves that share it.
into_split(arc) == [read |-> Half(arc), write |-> Half(arc)]

\* ReadHalf::is_pair_of: Arc::ptr_eq on the two inner pointers.
is_pair_of(read, write) == read.inner = write.inner

\* ReadHalf::unsplit: takes the stream back out of the shared Arc.
unsplit(read, write) == arcs[read.inner]

\* Err((read, write)): both halves handed back.
ErrHalves(read, write) == [tag |-> "Err", read |-> read, write |-> write]

\* async_io.rs:23-31
\* A try_join that unsplits without the pair check.
try_join_unchecked(read, write) == Ok(unsplit(read, write))

\* A try_join with the pair check inverted.
try_join_inverted(read, write) ==
    IF is_pair_of(read, write) THEN ErrHalves(read, write)
    ELSE Ok(unsplit(read, write))

try_join(read, write) ==
    IF ~is_pair_of(read, write) THEN ErrHalves(read, write)
    ELSE Ok(unsplit(read, write))

\* A read on the whole stream s that finds a byte.
StreamRead(s) ==
    /\ owner[s] # NoStream
    /\ chan[owner[s].fd].rx # <<>>
    /\ got' = [got EXCEPT ![s] = Append(@, Head(chan[owner[s].fd].rx))]
    /\ chan' = [chan EXCEPT ![owner[s].fd].rx = Tail(@)]
    /\ owner' = [owner EXCEPT ![s] = io_read(@)]
    /\ twin' = [twin EXCEPT ![s] = io_read(@)]
    /\ UNCHANGED <<arcs, nextArc, readHalf, writeHalf, halfUsed, joinArgs,
                   joinResult>>
    /\ UNCHANGED notSplit

\* A write of one byte on the whole stream s.
StreamWrite(s) ==
    /\ owner[s] # NoStream
    /\ owner[s].nwritten < MaxBytes
    /\ chan' = [chan EXCEPT ![owner[s].fd].tx = Append(@, owner[s].nwritten + 1)]
    /\ owner' = [owner EXCEPT ![s] = io_write(@)]
    /\ twin' = [twin EXCEPT ![s] = io_write(@)]
    /\ UNCHANGED <<arcs, nextArc, readHalf, writeHalf, got, halfUsed, joinArgs,
                   joinResult>>
    /\ UNCHANGED notSplit

\* async_io.rs:19-21: AsyncIO::into_split(stream s).
IntoSplit(s) ==
    /\ owner[s] # NoStream
    /\ nextArc <= MaxSplits
    /\ LET halves == into_split(nextArc) IN
        /\ arcs' = [arcs EXCEPT ![nextArc] = owner[s]]
        /\ readHalf' = [readHalf EXCEPT ![s] = halves.read]
        /\ writeHalf' = [writeHalf EXCEPT ![s] = halves.write]
    /\ owner' = [owner EXCEPT ![s] = NoStream]
    /\ nextArc' = nextArc + 1
    /\ UNCHANGED <<chan, got, twin, halfUsed, joinArgs, joinResult>>
    /\ UNCHANGED notSplit

\* A read through the read half taken from stream s: locks the shared
\* stream and reads on it.
HalfRead(s) ==
    /\ readHalf[s] # NoHalf
    /\ LET a == readHalf[s].inner IN
        /\ chan[arcs[a].fd].rx # <<>>
        /\ got' = [got EXCEPT ![s] = Append(@, Head(chan[arcs[a].fd].rx))]
        /\ chan' = [chan EXCEPT ![arcs[a].fd].rx = Tail(@)]
        /\ arcs' = [arcs EXCEPT ![a] = io_read(@)]
    /\ twin' = [twin EXCEPT ![s] = io_read(@)]
    /\ halfUsed' = [halfUsed EXCEPT ![s] = TRUE]
    /\ UNCHANGED <<owner, nextArc, readHalf, writeHalf, joinArgs, joinResult>>
    /\ UNCHANGED notSplit

\* A write through the write half taken from stream s.
HalfWrite(s) ==
    /\ writeHalf[s] # NoHalf
    /\ LET a == writeHalf[s].inner IN
        /\ arcs[a].nwritten < MaxBytes
        /\ chan' = [chan EXCEPT ![arcs[a].fd].tx = Append(@, arcs[a].nwritten + 1)]
        /\ arcs' = [arcs EXCEPT ![a] = io_write(@)]
    /\ twin' = [twin EXCEPT ![s] = io_write(@)]
    /\ halfUsed' = [halfUsed EXCEPT ![s] = TRUE]
    /\ UNCHANGED <<owner, nextArc, readHalf, writeHalf, got, joinArgs, joinResult>>
    /\ UNCHANGED notSplit

\* async_io.rs:23-31: AsyncIO::try_join(read half of i, write half of j).
\* On Ok both halves are consumed and the caller holds the stream again; on
\* Err the caller holds the two halves the Err carries.
TryJoin(i, j) ==
    /\ readHalf[i] # NoHalf
    /\ writeHalf[j] # NoHalf
    /\ LET r == try_join(readHalf[i], writeHalf[j]) IN
        /\ joinResult' = r
        /\ IF r.tag = "Ok"
             THEN /\ owner' = [owner EXCEPT ![i] = r.value]
                  /\ arcs' = [arcs EXCEPT ![readHalf[i].inner] = NoStream]
                  /\ readHalf' = [readHalf EXCEPT ![i] = NoHalf]
                  /\ writeHalf' = [writeHalf EXCEPT ![j] = NoHalf]
             ELSE /\ readHalf' = [readHalf EXCEPT ![i] = r.read]
                  /\ writeHalf' = [writeHalf EXCEPT ![j] = r.write]
                  /\ UNCHANGED <<owner, arcs>>
    /\ joinArgs' = <<i, j>>
    /\ UNCHANGED <<nextArc, chan, got, twin, halfUsed>>
    /\ UNCHANGED notSplit

InitSplit ==
    IdleSplit /\ IdleCrypto /\ IdleBuild /\ IdleConn /\ IdlePipe /\ IdleStream

NextSplit ==
    \/ \E s \in Streams :
          \/ StreamRead(s)
          \/ StreamWrite(s)
          \/ IntoSplit(s)
          \/ HalfRead(s)
          \/ HalfWrite(s)
    \/ \E i, j \in Streams : TryJoin(i, j)

SpecSplit == InitSplit /\ [][NextSplit]_vars

\* ---------------------------------------------------------------- C3
\* C3: try_join on a read half and a write half that come from different
\* into_split calls fails, its Err carries exactly the two halves it was
\* given, and nothing else changes: no half is consumed, no stream altered.
C3_MismatchedJoinFails ==
    [][\A i, j \in Streams :
          ( /\ readHalf[i] # NoHalf
            /\ writeHalf[j] # NoHalf
            /\ readHalf[i].inner # writeHalf[j].inner
            /\ TryJoin(i, j) )
          => /\ joinResult' = ErrHalves(readHalf[i], writeHalf[j])
             /\ UNCHANGED <<owner, arcs, readHalf, writeHalf, chan, got>>]_vars

\* A try_join on halves of two different splits has failed, and the two
\* halves are still the ones of their own streams.
C3_Witness ==
    /\ joinArgs = <<1, 2>>
    /\ joinResult.tag = "Err"
    /\ joinResult.read = readHalf[1]
    /\ joinResult.write = writeHalf[2]
    /\ readHalf[1].inner # writeHalf[2].inner
    /\ writeHalf[1] = readHalf[1]
    /\ halfUsed[1]

\* ---------------------------------------------------------------- C4
\* C4: try_join on the two halves of one into_split succeeds, whatever was
\* read and written through the halves in between, and gives back the
\* stream that was split: a whole stream is always the stream it would be
\* had it never been split, so its reads deliver the peer's bytes in order
\* and its writes go out in order.
C4_SplitJoinRoundTrip ==
    /\ [](\A s \in Streams :
            /\ owner[s] # NoStream => owner[s] = twin[s]
            /\ got[s] = [k \in 1..Len(got[s]) |-> PeerByte(s, k)]
            /\ chan[s].tx = [k \in 1..Len(chan[s].tx) |-> k])
    /\ [][\A s \in Streams :
            ( /\ readHalf[s] # NoHalf
              /\ writeHalf[s] = readHalf[s]
              /\ TryJoin(s, s) )
            => /\ joinResult'.tag = "Ok"
               /\ joinResult'.value = twin[s]
               /\ owner'[s] = twin[s]
               /\ readHalf'[s] = NoHalf /\ writeHalf'[s] = NoHalf]_vars

\* Stream 1 was split, used through its halves, rejoined, and read again as
\* a whole stream.
C4_Witness ==
    /\ joinArgs = <<1, 1>>
    /\ joinResult.tag = "Ok"
    /\ halfUsed[1]
    /\ owner[1] # NoStream
    /\ owner[1].nread > joinResult.value.nread
    /\ joinResult.value.nread > 0

\* ==================================================== client_connector.rs
Digits == {"0", "1", "2", "3", "4", "5", "6", "7", "8", "9"}
Letters ==
    { "a", "b", "c", "d", "e", "f", "g", "h", "i", "j", "k", "l", "m",
      "n", "o", "p", "q", "r", "s", "t", "u", "v", "w", "x", "y", "z",
      "A", "B", "C", "D", "E", "F", "G", "H", "I", "J", "K", "L", "M",
      "N", "O", "P", "Q", "R", "S", "T", "U", "V", "W", "X", "Y", "Z",
      "_" }

\* DnsName::try_from(name): the validation automaton of pki_types, run from
\* character idx in state st with len characters in the current label.
DnsState(st, len) == [st |-> st, len |-> len]

RECURSIVE validate_from(_, _, _)
validate_from(input, idx, state) ==
    IF idx > Len(input) THEN state.st \in {"Subsequent", "Next"}
    ELSE LET ch == input[idx]
             inLabel == state.st \in {"Subsequent", "NumericOnly", "Hyphen"}
             atStart == state.st \in {"Start", "Next", "NextAfterNumericOnly"}
         IN
         IF ch = "."
         THEN IF state.st = "Subsequent"
              THEN validate_from(input, idx + 1, DnsState("Next", 0))
              ELSE IF state.st = "NumericOnly"
              THEN validate_from(input, idx + 1, DnsState("NextAfterNumericOnly", 0))
              ELSE FALSE
         ELSE IF inLabel /\ state.len >= 63 THEN FALSE
         ELSE IF atStart /\ ch \in Digits
              THEN validate_from(input, idx + 1, DnsState("NumericOnly", 1))
         ELSE IF state.st = "NumericOnly" /\ ch \in Digits
              THEN validate_from(input, idx + 1, DnsState("NumericOnly", state.len + 1))
         ELSE IF atStart /\ ch \in Letters
              THEN validate_from(input, idx + 1, DnsState("Subsequent", 1))
         ELSE IF inLabel /\ ch = "-"
              THEN validate_from(input, idx + 1, DnsState("Hyphen", state.len + 1))
         ELSE IF inLabel /\ ch \in (Letters \cup Digits)
              THEN validate_from(input, idx + 1, DnsState("Subsequent", state.len + 1))
         ELSE FALSE

validate(input) ==
    /\ Len(input) <= 253
    /\ validate_from(input, 1, DnsState("Start", 0))

\* client_connector.rs:14-22
\* A constructor that stores the name as given.
ClientConnector_tls_unchecked(name, tls) ==
    Ok([built |-> TRUE, tls_connector |-> Some([name |-> name, connector |-> tls])])

ClientConnector_tls(name, tls) ==
    IF ~validate(name) THEN Err("InvalidInput", "invalid dnsname")
    ELSE Ok([built |-> TRUE,
             tls_connector |-> Some([name |-> name, connector |-> tls])])

\* client_connector.rs:24-28
ClientConnector_plain == [built |-> TRUE, tls_connector |-> None]

\* client_connector.rs:46-50
ClientAcceptor_tls(tls) == [built |-> TRUE, tls_acceptor |-> Some(tls)]

\* client_connector.rs:52-54
ClientAcceptor_plain == [built |-> TRUE, tls_acceptor |-> None]

\* tls_streams.rs:17-26: ClientStream / ServerStream, one variant active.
UnifiedStream(enum, variant, io) == [enum |-> enum, variant |-> variant, io |-> io]

\* How a handshake on a raw stream can end, and the io::Error of each failure.
HandshakeOutcomes == {"ok", "protocol_mismatch", "certificate_rejected", "io_failure"}
HandshakeError(outcome) ==
    IF outcome = "io_failure" THEN Err("UnexpectedEof", outcome)
    ELSE Err("InvalidData", outcome)

\* TlsConnector::connect / TlsAcceptor::accept: one handshake on io.
tls_handshake(io, outcome) ==
    IF outcome = "ok" THEN Ok(io) ELSE HandshakeError(outcome)

\* What travels on a raw stream: a byte in the clear, a TLS handshake message
\* (by its HandshakeType code), a TLS application-data record, a TLS alert.
Raw(b) == [record |-> "raw", body |-> b]
Handshake(msg) ==
    [record |-> "handshake",
     body |-> CASE msg = "ClientHello" -> 1
                [] msg = "ServerHello" -> 2
                [] msg = "Finished" -> 20]
CloseNotify == [record |-> "alert", body |-> 0]

\* What a call did: its result, the handshakes it started and what it wrote
\* to the raw stream while it ran.
Did(res, handshakes, written) ==
    [result |-> res, handshakes |-> handshakes, written |-> written]

\* client_connector.rs:30-37
\* A connect that falls back to plaintext when the handshake fails.
connect_fallback(self, io, outcome) ==
    IF self.tls_connector.some
    THEN LET hs == tls_handshake(io, outcome) IN
         IF hs.tag = "Ok"
         THEN Did(Ok(UnifiedStream("ClientStream", "TlsStream", hs.value)),
                  1, <<Handshake("ClientHello")>>)
         ELSE Did(Ok(UnifiedStream("ClientStream", "TcpStream", io)),
                  1, <<Handshake("ClientHello")>>)
    ELSE Did(Ok(UnifiedStream("ClientStream", "TcpStream", io)), 0, <<>>)

\* A connect that runs the handshake whether or not TLS is configured.
connect_always_tls(self, io, outcome) ==
    LET hs == tls_handshake(io, outcome) IN
    IF hs.tag = "Ok"
    THEN Did(Ok(UnifiedStream("ClientStream", "TlsStream", hs.value)),
             1, <<Handshake("ClientHello")>>)
    ELSE Did(hs, 1, <<Handshake("ClientHello")>>)

connect(self, io, outcome) ==
    IF self.tls_connector.some
    THEN LET hs == tls_handshake(io, outcome) IN
         IF hs.tag = "Ok"
         THEN Did(Ok(UnifiedStream("ClientStream", "TlsStream", hs.value)),
                  1, <<Handshake("ClientHello")>>)
         ELSE Did(hs, 1, <<Handshake("ClientHello")>>)
    ELSE Did(Ok(UnifiedStream("ClientStream", "TcpStream", io)), 0, <<>>)

\* client_connector.rs:56-61
accept(self, io, outcome) ==
    IF self.tls_acceptor.some
    THEN LET hs == tls_handshake(io, outcome) IN
         IF hs.tag = "Ok"
         THEN Did(Ok(UnifiedStream("ServerStream", "TlsStream", hs.value)),
                  1, <<Handshake("ServerHello")>>)
         ELSE Did(hs, 1, <<Handshake("ServerHello")>>)
    ELSE Did(Ok(UnifiedStream("ServerStream", "TcpStream", io)), 0, <<>>)

\* The TLS record layer on application bytes.
encrypt(b) == [record |-> "application_data", body |-> 255 - b]
decrypt(rec) == 255 - rec.body

\* What a read gives: a byte, end-of-stream, or an error.
ReadData(b) == [kind |-> "data", byte |-> b]
ReadEof == [kind |-> "eof", byte |-> 0]
ReadError(e) == [kind |-> e, byte |-> 0]

\* TlsStream::poll_read on the next thing in the raw stream: application
\* data is decrypted, close_notify ends the stream, anything else is not TLS.
tls_read(item) ==
    IF item.record = "application_data" THEN ReadData(decrypt(item))
    ELSE IF item = CloseNotify THEN ReadEof
    ELSE ReadError("InvalidData")

\* tls_streams.rs:93-104 / 141-152: poll_write goes to the active variant.
stream_write(stream, b) ==
    IF stream.variant = "TcpStream" THEN Raw(b) ELSE encrypt(b)

\* tls_streams.rs:78-89 / 126-137: poll_read goes to the active variant.
stream_read(stream, item) ==
    IF stream.variant = "TcpStream" THEN ReadData(item.body) ELSE tls_read(item)

\* poll_read when the raw stream is closed and empty: end-of-stream in the
\* clear; for TLS, a close without close_notify is an error.
stream_read_closed(stream) ==
    IF stream.variant = "TcpStream" THEN ReadEof ELSE ReadError("UnexpectedEof")

\* tls_streams.rs:115-122 / 163-170: poll_shutdown goes to the active
\* variant: what it writes before it closes the raw stream's write side.
\* A poll_shutdown that only closes the raw stream.
stream_shutdown_raw(stream) == <<>>

stream_shutdown(stream) ==
    IF stream.variant = "TcpStream" THEN <<>> ELSE <<CloseNotify>>

\* ClientConnector::tls(name, connector)
ConnectorTls(name) ==
    /\ connector = NoConnector
    /\ LET r == ClientConnector_tls(name, "TlsConnector") IN
        /\ tlsCall' = [call |-> "tls", name |-> name, result |-> r]
        /\ connector' = IF r.tag = "Ok" THEN r.value ELSE connector
    /\ UNCHANGED <<acceptor, out, hsCount, wire, inbound, appSent, appGot>>
    /\ UNCHANGED notConn

\* ClientConnector::plain()
ConnectorPlain ==
    /\ connector = NoConnector
    /\ connector' = ClientConnector_plain
    /\ UNCHANGED <<acceptor, tlsCall, out, hsCount, wire, inbound, appSent, appGot>>
    /\ UNCHANGED notConn

\* ClientAcceptor::tls(acceptor)
AcceptorTls ==
    /\ acceptor = NoConnector
    /\ acceptor' = ClientAcceptor_tls("TlsAcceptor")
    /\ UNCHANGED <<connector, tlsCall, out, hsCount, wire, inbound, appSent, appGot>>
    /\ UNCHANGED notConn

\* ClientAcceptor::plain()
AcceptorPlain ==
    /\ acceptor = NoConnector
    /\ acceptor' = ClientAcceptor_plain
    /\ UNCHANGED <<connector, tlsCall, out, hsCount, wire, inbound, appSent, appGot>>
    /\ UNCHANGED notConn

\* self.connect(io).await, the handshake ending in outcome.
Connect(io, outcome) ==
    /\ connector # NoConnector
    /\ out[io] = NoCall
    /\ LET did == connect(connector, io, outcome) IN
        /\ out' = [out EXCEPT ![io] =
                     [call |-> "connect", tls |-> connector.tls_connector.some,
                      outcome |-> outcome, result |-> did.result]]
        /\ hsCount' = [hsCount EXCEPT ![io] = @ + did.handshakes]
        /\ wire' = [wire EXCEPT ![io] = @ \o did.written]
    /\ UNCHANGED <<connector, acceptor, tlsCall, inbound, appSent, appGot>>
    /\ UNCHANGED notConn

\* self.accept(io).await, the handshake ending in outcome.
Accept(io, outcome) ==
    /\ acceptor # NoConnector
    /\ out[io] = NoCall
    /\ LET did == accept(acceptor, io, outcome) IN
        /\ out' = [out EXCEPT ![io] =
                     [call |-> "accept", tls |-> acceptor.tls_acceptor.some,
                      outcome |-> outcome, result |-> did.result]]
        /\ hsCount' = [hsCount EXCEPT ![io] = @ + did.handshakes]
        /\ wire' = [wire EXCEPT ![io] = @ \o did.written]
    /\ UNCHANGED <<connector, acceptor, tlsCall, inbound, appSent, appGot>>
    /\ UNCHANGED notConn

Connected(io) == out[io] # NoCall /\ out[io].result.tag = "Ok"

\* The application writes its next byte to the stream it got for io.
AppWrite(io) ==
    /\ Connected(io)
    /\ Len(appSent[io]) < MaxBytes
    /\ LET b == Len(appSent[io]) + 1 IN
        /\ appSent' = [appSent EXCEPT ![io] = Append(@, b)]
        /\ wire' = [wire EXCEPT ![io] = Append(@, stream_write(out[io].result.value, b))]
    /\ UNCHANGED <<connector, acceptor, tlsCall, out, hsCount, inbound, appGot>>
    /\ UNCHANGED notConn

\* The peer of io sends its next byte, in the clear or as a TLS record as
\* the connection was set up.
PeerSend(io) ==
    /\ Connected(io)
    /\ Len(appGot[io]) + Len(inbound[io]) < MaxBytes
    /\ LET b == Len(appGot[io]) + Len(inbound[io]) + 1 IN
        inbound' = [inbound EXCEPT ![io] =
                      Append(@, IF out[io].tls /\ out[io].outcome = "ok"
                                THEN encrypt(b) ELSE Raw(b))]
    /\ UNCHANGED <<connector, acceptor, tlsCall, out, hsCount, wire, appSent, appGot>>
    /\ UNCHANGED notConn

\* The application reads the next byte from the stream it got for io.
AppRead(io) ==
    /\ Connected(io)
    /\ inbound[io] # <<>>
    /\ appGot' = [appGot EXCEPT ![io] =
                    Append(@, stream_read(out[io].result.value, Head(inbound[io])).byte)]
    /\ inbound' = [inbound EXCEPT ![io] = Tail(@)]
    /\ UNCHANGED <<connector, acceptor, tlsCall, out, hsCount, wire, appSent>>
    /\ UNCHANGED notConn

InitConn ==
    IdleConn /\ IdleCrypto /\ IdleBuild /\ IdleSplit /\ IdlePipe /\ IdleStream

\* The names tried in SpecConn: one well-formed, one not.
SampleNames == { <<"a", ".", "b">>, <<"-", "a">> }

NextConn ==
    \/ \E name \in SampleNames : ConnectorTls(name)
    \/ ConnectorPlain
    \/ AcceptorTls
    \/ AcceptorPlain
    \/ \E io \in RawIOs, outcome \in HandshakeOutcomes :
          \/ Connect(io, outcome)
          \/ Accept(io, outcome)
    \/ \E io \in RawIOs :
          \/ AppWrite(io)
          \/ PeerSend(io)
          \/ AppRead(io)

SpecConn == InitConn /\ [][NextConn]_vars

\* Every server name of up to MaxNameLen characters over these.
NameChars == {"a", "7", "-", ".", "_", "!"}
Names == SeqsUpTo(NameChars, MaxNameLen)

NextName ==
    \/ \E name \in Names : ConnectorTls(name)
    \/ ConnectorPlain
    \/ \E io \in RawIOs, outcome \in HandshakeOutcomes : Connect(io, outcome)

SpecName == InitConn /\ [][NextName]_vars


\* ============================================ test.rs: one duplex pipe
\* simple_tls_connection_test: a connector and an acceptor at the two ends of
\* tokio::io::duplex, accept and connect running concurrently, then bytes in
\* both directions through the ClientStream / ServerStream they return.

\* test.rs:27-28: the server name the connector is built with.
PipeName == <<"a", ".", "b">>

\* test.rs:21-28, client_connector.rs:46-54: both ends set up for TLS, or both in the clear.
Setups ==
    { [client |-> ClientConnector_tls(PipeName, "client_config").value,
       server |-> ClientAcceptor_tls("server_config")],
      [client |-> ClientConnector_plain,
       server |-> ClientAcceptor_plain] }

\* The byte side writes k-th.
AppByte(side, k) == IF side = "client" THEN k ELSE 100 + k

\* tokio duplex, one direction: poll_write has room while the buffer is
\* below max_buf_size and the direction is open.
HasRoom(p, n) == ~p.is_closed /\ Len(p.buffer) + n <= PipeCap
PipePush(p, items) == [p EXCEPT !.buffer = @ \o items]
PipePop(p) == [p EXCEPT !.buffer = Tail(@)]
PipeClose(p) == [p EXCEPT !.is_closed = TRUE]
\* Dropping a DuplexStream closes both directions.
DropIo == [side \in Sides |-> PipeClose(pipe[side])]

\* connect / accept as called on side's end of the pipe.
Call(side, outcome) ==
    IF side = "client" THEN connect(setup[side], side, outcome)
    ELSE accept(setup[side], side, outcome)

\* The handshake message side waits for before its call returns.
Awaited(side) ==
    IF side = "client" THEN Handshake("ServerHello") ELSE Handshake("Finished")

\* test.rs:30: connect starts.  In the clear it returns the stream at
\* once; for TLS it writes the ClientHello and waits.
ConnectStart ==
    /\ phase["client"] = "new"
    /\ LET did == Call("client", "ok") IN
        IF did.handshakes = 0
        THEN /\ ustream' = [ustream EXCEPT !["client"] = did.result.value]
             /\ phase' = [phase EXCEPT !["client"] = "open"]
             /\ UNCHANGED pipe
        ELSE /\ HasRoom(pipe["client"], Len(did.written))
             /\ pipe' = [pipe EXCEPT !["client"] = PipePush(@, did.written)]
             /\ phase' = [phase EXCEPT !["client"] = "handshaking"]
             /\ UNCHANGED ustream
    /\ UNCHANGED <<setup, tx, rx, eof, rdErr>>
    /\ UNCHANGED notPipe

\* test.rs:26, client_connector.rs:56-61: accept starts.  In the clear it returns the stream at once;
\* for TLS it reads the ClientHello, answers and waits.
AcceptStart ==
    /\ phase["server"] = "new"
    /\ LET did == Call("server", "ok") IN
        IF did.handshakes = 0
        THEN /\ ustream' = [ustream EXCEPT !["server"] = did.result.value]
             /\ phase' = [phase EXCEPT !["server"] = "open"]
             /\ UNCHANGED pipe
        ELSE /\ pipe["client"].buffer # <<>>
             /\ Head(pipe["client"].buffer) = Handshake("ClientHello")
             /\ HasRoom(pipe["server"], Len(did.written))
             /\ pipe' = [pipe EXCEPT !["client"] = PipePop(@),
                                     !["server"] = PipePush(@, did.written)]
             /\ phase' = [phase EXCEPT !["server"] = "handshaking"]
             /\ UNCHANGED ustream
    /\ UNCHANGED <<setup, tx, rx, eof, rdErr>>
    /\ UNCHANGED notPipe

\* The handshake of side ends: with the peer's message read and the stream
\* returned (the client first writes its Finished), or with an error, the
\* raw stream dropped.
HandshakeEnd(side, outcome) ==
    /\ phase[side] = "handshaking"
    /\ LET in == pipe[Peer(side)]
           did == Call(side, outcome) IN
        \/ /\ in.buffer # <<>>
           /\ Head(in.buffer) = Awaited(side)
           /\ IF did.result.tag = "Ok"
              THEN /\ side = "client" => HasRoom(pipe[side], 1)
                   /\ pipe' = [pipe EXCEPT
                                 ![Peer(side)] = PipePop(@),
                                 ![side] = IF side = "client"
                                           THEN PipePush(@, <<Handshake("Finished")>>)
                                           ELSE @]
                   /\ ustream' = [ustream EXCEPT ![side] = did.result.value]
                   /\ phase' = [phase EXCEPT ![side] = "open"]
              ELSE /\ outcome # "io_failure"
                   /\ pipe' = DropIo
                   /\ phase' = [phase EXCEPT ![side] = "failed"]
                   /\ UNCHANGED ustream
        \/ /\ in.buffer = <<>>
           /\ in.is_closed
           /\ outcome = "io_failure"
           /\ pipe' = DropIo
           /\ phase' = [phase EXCEPT ![side] = "failed"]
           /\ UNCHANGED ustream
    /\ UNCHANGED <<setup, tx, rx, eof, rdErr>>
    /\ UNCHANGED notPipe

\* test.rs:34, 43, 48: side writes its next byte to its stream.
Write(side) ==
    /\ phase[side] = "open"
    /\ Len(tx[side]) < MaxBytes
    /\ HasRoom(pipe[side], 1)
    /\ LET b == AppByte(side, Len(tx[side]) + 1) IN
        /\ tx' = [tx EXCEPT ![side] = Append(@, b)]
        /\ pipe' = [pipe EXCEPT ![side] =
                      PipePush(@, <<stream_write(ustream[side], b)>>)]
    /\ UNCHANGED <<setup, phase, ustream, rx, eof, rdErr>>
    /\ UNCHANGED notPipe

\* test.rs:49: side shuts its stream down: what the active variant writes
\* first, then the write direction of the pipe is closed.
Shutdown(side) ==
    /\ phase[side] = "open"
    /\ LET last == stream_shutdown(ustream[side]) IN
        /\ HasRoom(pipe[side], Len(last))
        /\ pipe' = [pipe EXCEPT ![side] = PipeClose(PipePush(@, last))]
    /\ phase' = [phase EXCEPT ![side] = "shut"]
    /\ UNCHANGED <<setup, ustream, tx, rx, eof, rdErr>>
    /\ UNCHANGED notPipe

\* test.rs:39, 45, 52: one read of side from its stream (read_exact
\* and read_to_end are loops of these): the next thing in the pipe, or the
\* end of a closed and empty pipe.  Nothing more is read after end-of-stream
\* or an error.
Read(side) ==
    /\ phase[side] \in {"open", "shut"}
    /\ ~eof[side]
    /\ rdErr[side] = "none"
    /\ LET in == pipe[Peer(side)] IN
        /\ in.buffer # <<>> \/ in.is_closed
        /\ LET r == IF in.buffer # <<>>
                    THEN stream_read(ustream[side], Head(in.buffer))
                    ELSE stream_read_closed(ustream[side]) IN
            /\ rx' = [rx EXCEPT ![side] =
                        IF r.kind = "data" THEN Append(@, r.byte) ELSE @]
            /\ eof' = [eof EXCEPT ![side] = (r.kind = "eof")]
            /\ rdErr' = [rdErr EXCEPT ![side] =
                           IF r.kind \in {"data", "eof"} THEN "none" ELSE r.kind]
        /\ pipe' = [pipe EXCEPT ![Peer(side)] =
                      IF in.buffer # <<>> THEN PipePop(@) ELSE @]
    /\ UNCHANGED <<setup, phase, ustream, tx>>
    /\ UNCHANGED notPipe

InitPipe ==
    /\ setup \in Setups
    /\ pipe = [side \in Sides |-> [buffer |-> <<>>, is_closed |-> FALSE]]
    /\ phase = [side \in Sides |-> "new"]
    /\ ustream = [side \in Sides |-> NoCall]
    /\ tx = [side \in Sides |-> <<>>]
    /\ rx = [side \in Sides |-> <<>>]
    /\ eof = [side \in Sides |-> FALSE]
    /\ rdErr = [side \in Sides |-> "none"]
    /\ IdleCrypto
    /\ IdleBuild
    /\ IdleSplit
    /\ IdleConn
    /\ IdleStream

NextPipe ==
    \/ ConnectStart
    \/ AcceptStart
    \/ \E side \in Sides, outcome \in HandshakeOutcomes : HandshakeEnd(side, outcome)
    \/ \E side \in Sides :
          \/ Write(side)
          \/ Shutdown(side)
          \/ Read(side)

SpecPipe == InitPipe /\ [][NextPipe]_vars

\* Each side's reading task is polled whenever its pipe has something for it
\* or has been closed.
FairSpecPipe ==
    SpecPipe /\ WF_vars(Read("client")) /\ WF_vars(Read("server"))

\* Both accept and connect have returned a stream.
BothOpen == \A side \in Sides : phase[side] \in {"open", "shut"}

IsPrefix(a, b) == Len(a) <= Len(b) /\ \A k \in 1..Len(a) : a[k] = b[k]

\* What side has read is what its peer wrote, so far and at end-of-stream.
Delivered(side) ==
    /\ rdErr[side] = "none"
    /\ IsPrefix(rx[side], tx[Peer(side)])
    /\ eof[side] => phase[Peer(side)] = "shut" /\ rx[side] = tx[Peer(side)]

\* C9: after a successful accept and a concurrent successful connect over
\* one duplex pipe, in each direction the bytes the receiver has read are a
\* prefix of the bytes the sender wrote, in order, with no read error, and a
\* read that returns end-of-stream has received all of them; and once the
\* sender has shut down after its last write, the receiver's read-to-end
\* eventually ends at end-of-stream with exactly the bytes the sender wrote.
C9_PipeDeliversInOrderToEof ==
    /\ [](BothOpen => \A side \in Sides : Delivered(side))
    /\ \A side \in Sides :
          (BothOpen /\ phase[Peer(side)] = "shut")
             ~> (eof[side] /\ rx[side] = tx[Peer(side)])

\* A TLS connection on which both directions carried MaxBytes bytes, the
\* server shut down and the client read to end-of-stream.
C9_Witness ==
    /\ BothOpen
    /\ ustream["client"].variant = "TlsStream"
    /\ Len(rx["server"]) = MaxBytes
    /\ phase["server"] = "shut"
    /\ eof["client"]
    /\ Len(rx["client"]) = MaxBytes
    /\ rx["client"] = tx["server"]

\* ---------------------------------------------------------------- C5
\* C5: a connect or accept made with TLS configured starts exactly one
\* handshake on the stream it was given and returns the TLS-wrapped variant
\* of that stream when the handshake succeeds and the handshake's error when
\* it fails; it never returns the plaintext variant.
C5_OneHandshakeNoFallback ==
    \A io \in RawIOs :
        (out[io] # NoCall /\ out[io].tls) =>
            /\ hsCount[io] = 1
            /\ out[io].outcome = "ok" =>
                   /\ out[io].result.tag = "Ok"
                   /\ out[io].result.value.variant = "TlsStream"
                   /\ out[io].result.value.io = io
            /\ out[io].outcome # "ok" =>
                   out[io].result = HandshakeError(out[io].outcome)
            /\ out[io].result.tag = "Ok" => out[io].result.value.variant # "TcpStream"

\* A TLS connect whose handshake the peer's certificate check failed, next
\* to a TLS accept that succeeded.
C5_Witness ==
    /\ out[1] # NoCall /\ out[1].call = "connect" /\ out[1].tls
    /\ out[1].result = Err("InvalidData", "certificate_rejected")
    /\ hsCount[1] = 1
    /\ out[2] # NoCall /\ out[2].call = "accept" /\ out[2].tls
    /\ out[2].result = Ok(UnifiedStream("ServerStream", "TlsStream", 2))

\* ---------------------------------------------------------------- C6
\* C6: a connect or accept made after plain() starts no handshake, does no
\* I/O on the stream, succeeds, and returns the plaintext variant holding the
\* very stream it was given: the bytes written to the result are the bytes on
\* the raw stream and the bytes read are the bytes the peer sent.
C6_PlainPassThrough ==
    \A io \in RawIOs :
        (out[io] # NoCall /\ ~out[io].tls) =>
            /\ hsCount[io] = 0
            /\ out[io].result.tag = "Ok"
            /\ out[io].result.value.variant = "TcpStream"
            /\ out[io].result.value.io = io
            /\ wire[io] = [k \in 1..Len(appSent[io]) |-> Raw(appSent[io][k])]
            /\ inbound[io] = [k \in 1..Len(inbound[io]) |-> Raw(Len(appGot[io]) + k)]
            /\ appGot[io] = [k \in 1..Len(appGot[io]) |-> k]

\* A plain connect on stream 1, then MaxBytes bytes written and read.
C6_Witness ==
    /\ out[1] # NoCall /\ out[1].call = "connect" /\ ~out[1].tls
    /\ out[1].result = Ok(UnifiedStream("ClientStream", "TcpStream", 1))
    /\ Len(wire[1]) = MaxBytes
    /\ Len(appGot[1]) = MaxBytes

\* --------------------------------------------------------------- C10
\* A well-formed DNS name: at most 253 characters; after an optional final
\* dot, one or more labels separated by dots, each of 1 to 63 letters, digits,
\* '-' and '_', none starting or ending with '-', the last not all digits.
DnsBody(name) ==
    IF name # <<>> /\ name[Len(name)] = "." THEN SubSeq(name, 1, Len(name) - 1)
    ELSE name

IsDnsName(name) ==
    LET body == DnsBody(name)
        n == Len(body)
        dots == { i \in 1..n : body[i] = "." }
        lastStart == IF dots = {} THEN 1
                     ELSE 1 + CHOOSE i \in dots : \A j \in dots : j <= i
    IN
    /\ Len(name) <= 253
    /\ n > 0
    /\ \A i \in 1..n : body[i] \in Letters \cup Digits \cup {"-", "."}
    /\ body[1] \notin {".", "-"}
    /\ body[n] \notin {".", "-"}
    /\ \A i \in dots : body[i - 1] \notin {".", "-"} /\ body[i + 1] \notin {".", "-"}
    /\ \E i \in lastStart..n : body[i] \notin Digits
    /\ \A i \in 1..n : i + 63 <= n => \E k \in i..(i + 63) : body[k] = "."

\* C10: ClientConnector::tls fails with InvalidInput on every name that is
\* not a well-formed DNS name and builds a connector on every one that is;
\* so a connector holds no TLS settings or a well-formed name, and a connect
\* fails only with its handshake's error, never over the name.
C10_NameValidatedAtConstruction ==
    /\ tlsCall # NoCall =>
          IF IsDnsName(tlsCall.name)
          THEN /\ tlsCall.result.tag = "Ok"
               /\ connector = tlsCall.result.value
               /\ connector.tls_connector.v.name = tlsCall.name
          ELSE /\ tlsCall.result = Err("InvalidInput", "invalid dnsname")
               /\ connector = NoConnector \/ ~connector.tls_connector.some
    /\ (connector # NoConnector /\ connector.tls_connector.some) =>
          IsDnsName(connector.tls_connector.v.name)
    /\ \A io \in RawIOs :
          (out[io] # NoCall /\ out[io].result.tag = "Err") =>
              /\ out[io].tls
              /\ out[io].outcome # "ok"
              /\ out[io].result = HandshakeError(out[io].outcome)
              /\ out[io].result.kind # "InvalidInput"

\* A name whose second label starts with '-' was refused and no connector
\* exists.
C10_Witness ==
    /\ tlsCall # NoCall
    /\ tlsCall.name = <<"a", ".", "-">>
    /\ tlsCall.result = Err("InvalidInput", "invalid dnsname")
    /\ connector = NoConnector

\* ===================================================== tls_streams.rs
\* The unified streams as values, and each operation as the call it makes
\* on the inner value of the active variant.

\* tls_streams.rs:11-14: MaybeTlsStream { Client(ClientStream), Server(ServerStream) }
MaybeTlsStream(variant, stream) ==
    [enum |-> "MaybeTlsStream", variant |-> variant, inner |-> stream]

\* AsyncRead / AsyncWrite: the four operations and what a poll returns.
Ops == {"poll_read", "poll_write", "poll_flush", "poll_shutdown"}
PollResults == {"Pending", "Ready(Ok)", "Ready(Err)"}

\* Pin::new_unchecked(io).op(..): one call of op on the inner value of type
\* layer, whose result res is the value of the match.
Forward(layer, op, res) ==
    [calls |-> <<[layer |-> layer, op |-> op]>>, result |-> res]

\* tls_streams.rs:78-89
ClientStream_poll_read(self, res) ==
    IF self.variant = "TcpStream" THEN Forward("IO", "poll_read", res)
    ELSE Forward("ClientTlsStream", "poll_read", res)

\* tls_streams.rs:93-104
ClientStream_poll_write(self, res) ==
    IF self.variant = "TcpStream" THEN Forward("IO", "poll_write", res)
    ELSE Forward("ClientTlsStream", "poll_write", res)

\* tls_streams.rs:106-113
ClientStream_poll_flush(self, res) ==
    IF self.variant = "TcpStream" THEN Forward("IO", "poll_flush", res)
    ELSE Forward("ClientTlsStream", "poll_flush", res)

\* tls_streams.rs:115-122
\* A poll_shutdown that shuts down the raw stream whatever the variant.
ClientStream_poll_shutdown_raw(self, res) ==
    Forward("IO", "poll_shutdown", res)

ClientStream_poll_shutdown(self, res) ==
    IF self.variant = "TcpStream" THEN Forward("IO", "poll_shutdown", res)
    ELSE Forward("ClientTlsStream", "poll_shutdown", res)

\* tls_streams.rs:126-137
ServerStream_poll_read(self, res) ==
    IF self.variant = "TcpStream" THEN Forward("IO", "poll_read", res)
    ELSE Forward("ServerTlsStream", "poll_read", res)

\* tls_streams.rs:141-152
ServerStream_poll_write(self, res) ==
    IF self.variant = "TcpStream" THEN Forward("IO", "poll_write", res)
    ELSE Forward("ServerTlsStream", "poll_write", res)

\* tls_streams.rs:154-161
ServerStream_poll_flush(self, res) ==
    IF self.variant = "TcpStream" THEN Forward("IO", "poll_flush", res)
    ELSE Forward("ServerTlsStream", "poll_flush", res)

\* tls_streams.rs:163-170
ServerStream_poll_shutdown(self, res) ==
    IF self.variant = "TcpStream" THEN Forward("IO", "poll_shutdown", res)
    ELSE Forward("ServerTlsStream", "poll_shutdown", res)

\* tls_streams.rs:29-40
MaybeTlsStream_poll_read(self, res) ==
    IF self.variant = "Client" THEN ClientStream_poll_read(self.inner, res)
    ELSE ServerStream_poll_read(self.inner, res)

\* tls_streams.rs:44-55
MaybeTlsStream_poll_write(self, res) ==
    IF self.variant = "Client" THEN ClientStream_poll_write(self.inner, res)
    ELSE ServerStream_poll_write(self.inner, res)

\* tls_streams.rs:57-64
MaybeTlsStream_poll_flush(self, res) ==
    IF self.variant = "Client" THEN ClientStream_poll_flush(self.inner, res)
    ELSE ServerStream_poll_flush(self.inner, res)

\* tls_streams.rs:66-73
MaybeTlsStream_poll_shutdown(self, res) ==
    IF self.variant = "Client" THEN ClientStream_poll_shutdown(self.inner, res)
    ELSE ServerStream_poll_shutdown(self.inner, res)

\* The operation op of the trait impl of self's type.
poll(self, op, res) ==
    CASE self.enum = "ClientStream" /\ op = "poll_read" -> ClientStream_poll_read(self, res)
      [] self.enum = "ClientStream" /\ op = "poll_write" -> ClientStream_poll_write(self, res)
      [] self.enum = "ClientStream" /\ op = "poll_flush" -> ClientStream_poll_flush(self, res)
      [] self.enum = "ClientStream" /\ op = "poll_shutdown" -> ClientStream_poll_shutdown(self, res)
      [] self.enum = "ServerStream" /\ op = "poll_read" -> ServerStream_poll_read(self, res)
      [] self.enum = "ServerStream" /\ op = "poll_write" -> ServerStream_poll_write(self, res)
      [] self.enum = "ServerStream" /\ op = "poll_flush" -> ServerStream_poll_flush(self, res)
      [] self.enum = "ServerStream" /\ op = "poll_shutdown" -> ServerStream_poll_shutdown(self, res)
      [] self.enum = "MaybeTlsStream" /\ op = "poll_read" -> MaybeTlsStream_poll_read(self, res)
      [] self.enum = "MaybeTlsStream" /\ op = "poll_write" -> MaybeTlsStream_poll_write(self, res)
      [] self.enum = "MaybeTlsStream" /\ op = "poll_flush" -> MaybeTlsStream_poll_flush(self, res)
      [] self.enum = "MaybeTlsStream" /\ op = "poll_shutdown" -> MaybeTlsStream_poll_shutdown(self, res)

\* tls_streams.rs:11-26: every value of the three enums over one raw stream.
StreamValues ==
    LET clients == { UnifiedStream("ClientStream", v, "io") : v \in {"TcpStream", "TlsStream"} }
        servers == { UnifiedStream("ServerStream", v, "io") : v \in {"TcpStream", "TlsStream"} }
    IN clients \cup servers
         \cup { MaybeTlsStream("Client", c) : c \in clients }
         \cup { MaybeTlsStream("Server", c) : c \in servers }

\* The caller polls op on the stream; the inner call it reaches returns res.
Poll(op, res) ==
    /\ Len(opLog) < MaxOps
    /\ LET did == poll(sval, op, res) IN
        opLog' = Append(opLog, [asked |-> op, calls |-> did.calls,
                                inner |-> res, returned |-> did.result])
    /\ UNCHANGED <<sval, made>>
    /\ UNCHANGED notStream

InitStream ==
    /\ sval \in StreamValues
    /\ made = sval
    /\ opLog = <<>>
    /\ IdleCrypto
    /\ IdleBuild
    /\ IdleSplit
    /\ IdleConn
    /\ IdlePipe

NextStream == \E op \in Ops, res \in PollResults : Poll(op, res)

SpecStream == InitStream /\ [][NextStream]_vars

\* ---------------------------------------------------------------- C12
\* The type of the inner value of the active variant, through a
\* MaybeTlsStream down to the raw stream or the TLS stream.
ActiveLayer(v) ==
    LET leaf == IF v.enum = "MaybeTlsStream" THEN v.inner ELSE v IN
    IF leaf.variant = "TcpStream" THEN "IO"
    ELSE IF leaf.enum = "ClientStream" THEN "ClientTlsStream"
    ELSE "ServerTlsStream"

\* C12: on a ClientStream, a ServerStream and a MaybeTlsStream, each read,
\* write, flush and shutdown makes exactly one call, of that same operation,
\* on the inner value of the active variant, and returns what that call
\* returned; and the stream is still the value it was created as, variant
\* included, after every operation.
C12_ForwardToActiveVariant ==
    /\ sval = made
    /\ \A k \in 1..Len(opLog) :
          /\ opLog[k].calls = <<[layer |-> ActiveLayer(made), op |-> opLog[k].asked]>>
          /\ opLog[k].returned = opLog[k].inner

\* A MaybeTlsStream over a client TLS stream that was flushed, which returned
\* Pending, and then shut down, which failed.
C12_Witness ==
    /\ made = MaybeTlsStream("Client", UnifiedStream("ClientStream", "TlsStream", "io"))
    /\ Len(opLog) = 2
    /\ opLog[1].asked = "poll_flush"
    /\ opLog[1].returned = "Pending"
    /\ opLog[2].asked = "poll_shutdown"
    /\ opLog[2].calls = <<[layer |-> "ClientTlsStream", op |-> "poll_shutdown"]>>
    /\ opLog[2].returned = "Ready(Err)"
====
